---- MODULE Spec2Model ----
(***************************************************************************)
(* Verification model of the sentiment pipeline of StockSentimentPro:      *)
(*   utils/advanced_sentiment.py  (preprocess_text,                        *)
(*                                 enhanced_sentiment_analysis,            *)
(*                                 get_sentiment_stats)                    *)
(*   utils/sentiment_analysis.py  (get_stock_news, get_stock_tweets,       *)
(*                                 get_sentiment_summary)                  *)
(*                                                                         *)
(* Numbers.  Python floats are modelled as exact fixed-point rationals:    *)
(* the integer n stands for n / One.  Every sample value is chosen so that *)
(* each product the code forms (x * 0.5, x * 0.7, x * 0.3) is an integer,  *)
(* so no rounding happens inside the model.  Binary floating-point         *)
(* rounding of the real program is not modelled.                           *)
(*                                                                         *)
(* Text.  A Python value is a record [type, chars]; a str is a sequence of *)
(* one-character strings.                                                  *)
(***************************************************************************)
EXTENDS Integers, Sequences, FiniteSets, TLC

VARIABLES
    pc,                 \* position of the call being modelled
    text,               \* local `text` of enhanced_sentiment_analysis
    raised,             \* does the primary (try) block raise an Exception
    lexicon,            \* what sia.polarity_scores answers on non-empty text
    blob,               \* what TextBlob(...).sentiment answers on non-empty text
    vader_scores,       \* local `vader_scores` (NotInvoked before line 96/162)
    textblob_polarity,  \* local `textblob_polarity` (NotInvoked before line 100/158)
    result,             \* the dict returned by enhanced_sentiment_analysis
    news_cache,         \* st.cache_data entry of get_stock_news(ticker, 14, 50)
    tweets_cache,       \* st.cache_data entry of get_stock_tweets(ticker, 14, 50)
    news_df,            \* locals of the last get_sentiment_summary call
    news_error,
    tweets_df,
    tweets_error,
    summary,            \* the dict returned by the last get_sentiment_summary call
    outcome,            \* how that call ended: "none", "returned" or "raised"
    fetched,            \* which function bodies that call ran (cache misses)
    provider,           \* what stock.news answers (line 85)
    days,               \* argument `days` of get_stock_news / get_stock_tweets
    max_items,          \* argument max_articles / max_tweets
    news_ret,           \* (news_df, error) returned by get_stock_news
    tweets,             \* local list `tweets` of get_stock_tweets (line 248)
    tweets_ret,         \* (tweets_df, error) returned by get_stock_tweets
    raw,                \* argument of preprocess_text
    cleaned,            \* the value preprocess_text returned
    collection,         \* rows of a scored collection, in the caller's order
    shuffled,           \* the same rows in another order
    news_len,           \* how many of the rows are news (the rest are social)
    stats,              \* what the aggregators returned for both orders
    called,             \* the decorated function two concurrent requests call
    compute_value_lock, \* does the cache serialise the misses of one key
    feed_cache,         \* st.cache_data entry of that function for the key
    requests,           \* position and returned value of each request
    sentiment_market,   \* widget "Select Market for Sentiment Analysis"
    ticker_select,      \* widget "Select Stock"
    custom_sentiment_ticker,  \* widget "Or enter custom ticker symbol"
    days_back,          \* widget "Days to look back"
    session_state,      \* st.session_state: the results stored at lines 103-112
    rendered,           \* what the last run of the script put on the page
    row_title,          \* row['title'] of the news row a post is generated from
    symbol,             \* argument `ticker` of get_stock_tweets, as characters
    base_post           \* the base post of the row and the texts that are scored

scorerVars == <<pc, text, raised, lexicon, blob, vader_scores,
                textblob_polarity, result>>

summaryVars == <<news_cache, tweets_cache, news_df, news_error, tweets_df,
                 tweets_error, summary, outcome, fetched>>

feedVars == <<provider, days, max_items, news_ret, tweets, tweets_ret>>

normalizerVars == <<raw, cleaned>>

aggregateVars == <<collection, shuffled, news_len, stats>>

raceVars == <<called, compute_value_lock, feed_cache, requests>>

dashboardVars == <<sentiment_market, ticker_select, custom_sentiment_ticker,
                   days_back, session_state, rendered>>

postVars == <<row_title, symbol, base_post>>

vars == <<scorerVars, summaryVars, feedVars, normalizerVars, aggregateVars,
          raceVars, dashboardVars, postVars>>

----------------------------------------------------------------------------
(* Fixed-point scale and the numeric literals of the scorer.               *)

One == 2000

Scale(x, num, den) == (x * num) \div den

Abs(x) == IF x < 0 THEN -x ELSE x

Max(a, b) == IF a >= b THEN a ELSE b

Min(a, b) == IF a <= b THEN a ELSE b

RECURSIVE SeqsUpTo(_, _)
\* all sequences over S of length at most n
SeqsUpTo(S, n) ==
    IF n = 0 THEN {<<>>}
    ELSE LET shorter == SeqsUpTo(S, n - 1)
         IN shorter \cup {Append(s, c) : s \in shorter, c \in S}

----------------------------------------------------------------------------
(* Bounds of the text inputs.                                              *)

MaxTextLen == 2

ScorerAlphabet == {"a", "A", "1", "#", " "}

----------------------------------------------------------------------------
(* Character classes of Python's re module, on the modelled characters.    *)

UpperChars == {"A", "H", "T", "P", "W", "B", "C", "G", "K", "L", "N", "R", "S"}

LowerChars == {"a", "h", "t", "p", "w", "b", "c", "g", "k", "l", "n", "r", "s"}

DigitChars == {"1"}

SpaceChars == {" "}

IsSpace(c) == c \in SpaceChars

IsDigit(c) == c \in DigitChars

\* \w : letters, digits and the underscore
IsWord(c) == c \in UpperChars \cup LowerChars \cup DigitChars \cup {"_"}

ToLower(c) ==
    CASE c = "A" -> "a"
      [] c = "H" -> "h"
      [] c = "T" -> "t"
      [] c = "P" -> "p"
      [] c = "W" -> "w"
      [] c = "B" -> "b"
      [] c = "C" -> "c"
      [] c = "G" -> "g"
      [] c = "K" -> "k"
      [] c = "L" -> "l"
      [] c = "N" -> "n"
      [] c = "R" -> "r"
      [] c = "S" -> "s"
      [] OTHER -> c

\* str.lower()
Lower(s) == [i \in 1..Len(s) |-> ToLower(s[i])]

\* does pattern pat (a literal) occur in s at position i
StartsWith(s, i, pat) ==
    /\ i + Len(pat) - 1 <= Len(s)
    /\ \A k \in 1..Len(pat) : s[i + k - 1] = pat[k]

RECURSIVE NonSpaceRunEnd(_, _)
\* last index of the maximal run of \S characters starting at i (i-1 if none)
NonSpaceRunEnd(s, i) ==
    IF i > Len(s) \/ IsSpace(s[i]) THEN i - 1 ELSE NonSpaceRunEnd(s, i + 1)

RECURSIVE WordRunEnd(_, _)
\* last index of the maximal run of \w characters starting at i (i-1 if none)
WordRunEnd(s, i) ==
    IF i > Len(s) \/ ~IsWord(s[i]) THEN i - 1 ELSE WordRunEnd(s, i + 1)

\* length of the match of  http\S+|www\S+|https\S+  at position i, 0 if none
UrlMatchLen(s, i) ==
    IF StartsWith(s, i, <<"h", "t", "t", "p">>)
          /\ NonSpaceRunEnd(s, i + 4) >= i + 4
    THEN NonSpaceRunEnd(s, i + 4) - i + 1
    ELSE IF StartsWith(s, i, <<"w", "w", "w">>)
          /\ NonSpaceRunEnd(s, i + 3) >= i + 3
    THEN NonSpaceRunEnd(s, i + 3) - i + 1
    ELSE IF StartsWith(s, i, <<"h", "t", "t", "p", "s">>)
          /\ NonSpaceRunEnd(s, i + 5) >= i + 5
    THEN NonSpaceRunEnd(s, i + 5) - i + 1
    ELSE 0

RECURSIVE RemoveUrls(_, _)
\* re.sub(r'http\S+|www\S+|https\S+', '', text): leftmost, non-overlapping
RemoveUrls(s, i) ==
    IF i > Len(s) THEN <<>>
    ELSE IF UrlMatchLen(s, i) > 0 THEN RemoveUrls(s, i + UrlMatchLen(s, i))
    ELSE <<s[i]>> \o RemoveUrls(s, i + 1)

RECURSIVE RemoveTagged(_, _, _)
\* re.sub(r'@\w+', '', text) and re.sub(r'#\w+', '', text), mark = "@" / "#"
RemoveTagged(s, i, mark) ==
    IF i > Len(s) THEN <<>>
    ELSE IF s[i] = mark /\ WordRunEnd(s, i + 1) >= i + 1
    THEN RemoveTagged(s, WordRunEnd(s, i + 1) + 1, mark)
    ELSE <<s[i]>> \o RemoveTagged(s, i + 1, mark)

\* re.sub(r'[^\w\s]', '', text)
RemoveSpecial(s) == SelectSeq(s, LAMBDA c : IsWord(c) \/ IsSpace(c))

\* re.sub(r'\d+', '', text)
RemoveDigits(s) == SelectSeq(s, LAMBDA c : ~IsDigit(c))

RECURSIVE CollapseSpaces(_, _)
\* re.sub(r'\s+', ' ', text)
CollapseSpaces(s, i) ==
    IF i > Len(s) THEN <<>>
    ELSE IF IsSpace(s[i])
    THEN IF i > 1 /\ IsSpace(s[i - 1])
         THEN CollapseSpaces(s, i + 1)
         ELSE <<" ">> \o CollapseSpaces(s, i + 1)
    ELSE <<s[i]>> \o CollapseSpaces(s, i + 1)

RECURSIVE LStrip(_)
LStrip(s) == IF s # <<>> /\ IsSpace(Head(s)) THEN LStrip(Tail(s)) ELSE s

RECURSIVE RStrip(_)
RStrip(s) ==
    IF s # <<>> /\ IsSpace(s[Len(s)])
    THEN RStrip(SubSeq(s, 1, Len(s) - 1))
    ELSE s

\* str.strip()
Strip(s) == RStrip(LStrip(s))

----------------------------------------------------------------------------
(* Python values handed to the scorer.                                     *)

Str(chars) == [type |-> "str", chars |-> chars]

PyNone == [type |-> "NoneType", chars |-> <<>>]

\* a non-string, truthy value (e.g. float NaN of a missing DataFrame cell)
PyNaN == [type |-> "float", chars |-> <<>>]

isinstance_str(v) == v.type = "str"

\* Python truthiness: None and "" are falsy, NaN and non-empty str truthy
Truthy(v) ==
    CASE v.type = "NoneType" -> FALSE
      [] v.type = "str" -> v.chars # <<>>
      [] OTHER -> TRUE

preprocess_text(v) ==
    IF ~isinstance_str(v) THEN Str(<<>>)
    ELSE LET t1 == Lower(v.chars)
             t2 == RemoveUrls(t1, 1)
             t3 == RemoveTagged(t2, 1, "@")
             t4 == RemoveTagged(t3, 1, "#")
             t5 == RemoveSpecial(t4)
             t6 == RemoveDigits(t5)
             t7 == Strip(CollapseSpaces(t6, 1))
         IN Str(t7)

----------------------------------------------------------------------------
(* The two library models.  Their code is not part of the repository; they *)
(* are modelled by their answers.  On text with at least one token the     *)
(* answers are arbitrary values of the documented ranges (the variables    *)
(* lexicon and blob); on the empty string NLTK's VADER returns             *)
(* {neg: 0.0, neu: 0.0, pos: 0.0, compound: 0.0} and TextBlob returns      *)
(* polarity 0.0, subjectivity 0.0.                                         *)

NotInvoked == [invoked |-> FALSE]

SubScoreSamples == {0, 400, 800, 1200, 1600, 2000}

CompoundSamples == {-2000, -100, 0, 100, 2000}

PolaritySamples == {-2000, -1200, -1000, -100, 0, 100, 1000, 1200, 2000}

SubjectivitySamples == {0, 1000}

LexiconOutputs ==
    {[pos |-> p, neg |-> n, neu |-> One - p - n, compound |-> c] :
        <<p, n, c>> \in {q \in SubScoreSamples \X SubScoreSamples \X CompoundSamples :
                            q[1] + q[2] <= One}}

BlobOutputs ==
    [polarity : PolaritySamples, subjectivity : SubjectivitySamples]

ZeroScores == [pos |-> 0, neg |-> 0, neu |-> 0, compound |-> 0]

\* sia.polarity_scores(text)
polarity_scores(t, lex) == IF t.chars = <<>> THEN ZeroScores ELSE lex

\* TextBlob(text).sentiment
TextBlobSentiment(t, blb) ==
    IF t.chars = <<>> THEN [polarity |-> 0, subjectivity |-> 0] ELSE blb

----------------------------------------------------------------------------
(* enhanced_sentiment_analysis                                             *)

\* 0.55, the decision boundary of the primary block
SharpThreshold == 1100

\* 0.6, the start of the decisive band
BandBase == 1200

\* 0.05, the label threshold of the fallback block
LabelThreshold == 100

\* the dict returned for a falsy or non-string argument (lines 74-80)
NeutralScore ==
    [compound |-> 0, positive |-> 0, negative |-> 0, neutral |-> One,
     sentiment |-> "neutral"]

\* PrimaryBlend with the boundary 0.55 itself counted as decisive
PrimaryBlendInclusiveThreshold(vs, pol, subj) ==
    LET positive_score ==
            Scale(vs.pos, 1, 2) + (IF pol > 0 THEN Scale(pol, 1, 2) ELSE 0)
        negative_score ==
            Scale(vs.neg, 1, 2) + (IF pol > 0 THEN 0 ELSE Scale(Abs(pol), 1, 2))
        neutral_score == One - (positive_score + negative_score)
        sentiment ==
            IF positive_score > negative_score /\ positive_score >= SharpThreshold
            THEN "positive"
            ELSE IF negative_score > positive_score /\ negative_score >= SharpThreshold
            THEN "negative"
            ELSE "neutral"
        compound_score ==
            IF positive_score > negative_score /\ positive_score >= SharpThreshold
            THEN BandBase + (positive_score - SharpThreshold) * 2
            ELSE IF negative_score > positive_score /\ negative_score >= SharpThreshold
            THEN -BandBase - (negative_score - SharpThreshold) * 2
            ELSE Scale(positive_score - negative_score, 1, 2)
    IN [compound |-> Max(-One, Min(One, compound_score)),
        positive |-> positive_score,
        negative |-> negative_score,
        neutral |-> neutral_score,
        subjectivity |-> subj,
        sentiment |-> sentiment,
        model |-> "distilbert-emulated"]

\* PrimaryBlend without the clamp of line 142
PrimaryBlendUnclamped(vs, pol, subj) ==
    LET positive_score ==
            Scale(vs.pos, 1, 2) + (IF pol > 0 THEN Scale(pol, 1, 2) ELSE 0)
        negative_score ==
            Scale(vs.neg, 1, 2) + (IF pol > 0 THEN 0 ELSE Scale(Abs(pol), 1, 2))
        neutral_score == One - (positive_score + negative_score)
        sentiment ==
            IF positive_score > negative_score /\ positive_score > SharpThreshold
            THEN "positive"
            ELSE IF negative_score > positive_score /\ negative_score > SharpThreshold
            THEN "negative"
            ELSE "neutral"
        compound_score ==
            IF positive_score > negative_score /\ positive_score > SharpThreshold
            THEN BandBase + (positive_score - SharpThreshold) * 2
            ELSE IF negative_score > positive_score /\ negative_score > SharpThreshold
            THEN -BandBase - (negative_score - SharpThreshold) * 2
            ELSE Scale(positive_score - negative_score, 1, 2)
    IN [compound |-> compound_score,
        positive |-> positive_score,
        negative |-> negative_score,
        neutral |-> neutral_score,
        subjectivity |-> subj,
        sentiment |-> sentiment,
        model |-> "distilbert-emulated"]

\* PrimaryBlend with the decisive bands starting at 0 instead of +-0.6
PrimaryBlendNoBandBase(vs, pol, subj) ==
    LET positive_score ==
            Scale(vs.pos, 1, 2) + (IF pol > 0 THEN Scale(pol, 1, 2) ELSE 0)
        negative_score ==
            Scale(vs.neg, 1, 2) + (IF pol > 0 THEN 0 ELSE Scale(Abs(pol), 1, 2))
        neutral_score == One - (positive_score + negative_score)
        sentiment ==
            IF positive_score > negative_score /\ positive_score > SharpThreshold
            THEN "positive"
            ELSE IF negative_score > positive_score /\ negative_score > SharpThreshold
            THEN "negative"
            ELSE "neutral"
        compound_score ==
            IF positive_score > negative_score /\ positive_score > SharpThreshold
            THEN (positive_score - SharpThreshold) * 2
            ELSE IF negative_score > positive_score /\ negative_score > SharpThreshold
            THEN -(negative_score - SharpThreshold) * 2
            ELSE Scale(positive_score - negative_score, 1, 2)
    IN [compound |-> Max(-One, Min(One, compound_score)),
        positive |-> positive_score,
        negative |-> negative_score,
        neutral |-> neutral_score,
        subjectivity |-> subj,
        sentiment |-> sentiment,
        model |-> "distilbert-emulated"]

\* lines 115-152: the primary (try) block
PrimaryBlend(vs, pol, subj) ==
    LET positive_score ==
            Scale(vs.pos, 1, 2) + (IF pol > 0 THEN Scale(pol, 1, 2) ELSE 0)
        negative_score ==
            Scale(vs.neg, 1, 2) + (IF pol > 0 THEN 0 ELSE Scale(Abs(pol), 1, 2))
        neutral_score == One - (positive_score + negative_score)
        sentiment ==
            IF positive_score > negative_score /\ positive_score > SharpThreshold
            THEN "positive"
            ELSE IF negative_score > positive_score /\ negative_score > SharpThreshold
            THEN "negative"
            ELSE "neutral"
        compound_score ==
            IF positive_score > negative_score /\ positive_score > SharpThreshold
            THEN BandBase + (positive_score - SharpThreshold) * 2
            ELSE IF negative_score > positive_score /\ negative_score > SharpThreshold
            THEN -BandBase - (negative_score - SharpThreshold) * 2
            ELSE Scale(positive_score - negative_score, 1, 2)
    IN [compound |-> Max(-One, Min(One, compound_score)),
        positive |-> positive_score,
        negative |-> negative_score,
        neutral |-> neutral_score,
        subjectivity |-> subj,
        sentiment |-> sentiment,
        model |-> "distilbert-emulated"]

\* FallbackBlend with the two weights exchanged
FallbackBlendSwappedWeights(vs, pol, subj) ==
    LET compound_score == Scale(vs.compound, 3, 10) + Scale(pol, 7, 10)
        sentiment ==
            IF compound_score >= LabelThreshold THEN "positive"
            ELSE IF compound_score <= -LabelThreshold THEN "negative"
            ELSE "neutral"
    IN [compound |-> compound_score,
        positive |-> vs.pos,
        negative |-> vs.neg,
        neutral |-> vs.neu,
        subjectivity |-> subj,
        sentiment |-> sentiment,
        model |-> "vader-textblob"]

\* FallbackBlend with exclusive thresholds
FallbackBlendStrictThresholds(vs, pol, subj) ==
    LET compound_score == Scale(vs.compound, 7, 10) + Scale(pol, 3, 10)
        sentiment ==
            IF compound_score > LabelThreshold THEN "positive"
            ELSE IF compound_score < -LabelThreshold THEN "negative"
            ELSE "neutral"
    IN [compound |-> compound_score,
        positive |-> vs.pos,
        negative |-> vs.neg,
        neutral |-> vs.neu,
        subjectivity |-> subj,
        sentiment |-> sentiment,
        model |-> "vader-textblob"]

\* FallbackBlend with the positive and negative sub-scores exchanged
FallbackBlendSwappedSubScores(vs, pol, subj) ==
    LET compound_score == Scale(vs.compound, 7, 10) + Scale(pol, 3, 10)
        sentiment ==
            IF compound_score >= LabelThreshold THEN "positive"
            ELSE IF compound_score <= -LabelThreshold THEN "negative"
            ELSE "neutral"
    IN [compound |-> compound_score,
        positive |-> vs.neg,
        negative |-> vs.pos,
        neutral |-> vs.neu,
        subjectivity |-> subj,
        sentiment |-> sentiment,
        model |-> "vader-textblob"]

\* lines 154-183: the except block
FallbackBlend(vs, pol, subj) ==
    LET compound_score == Scale(vs.compound, 7, 10) + Scale(pol, 3, 10)
        sentiment ==
            IF compound_score >= LabelThreshold THEN "positive"
            ELSE IF compound_score <= -LabelThreshold THEN "negative"
            ELSE "neutral"
    IN [compound |-> compound_score,
        positive |-> vs.pos,
        negative |-> vs.neg,
        neutral |-> vs.neu,
        subjectivity |-> subj,
        sentiment |-> sentiment,
        model |-> "vader-textblob"]

\* v: the argument; exc: the try block raises; lex, blb: the library answers
enhanced_sentiment_analysis(v, exc, lex, blb) ==
    IF ~Truthy(v) \/ ~isinstance_str(v) THEN NeutralScore
    ELSE LET t == preprocess_text(v)
             vs == polarity_scores(t, lex)
             tb == TextBlobSentiment(t, blb)
         IN IF ~exc
            THEN PrimaryBlend(vs, tb.polarity, tb.subjectivity)
            ELSE FallbackBlend(vs, tb.polarity, tb.subjectivity)

----------------------------------------------------------------------------
(* DataFrames, as far as get_sentiment_summary reads them: the set of      *)
(* column names and the 'sentiment' column, one label per row.  The        *)
(* function only takes len(), boolean filters and list.count() of that     *)
(* column, so frames are enumerated up to row order: each multiset of      *)
(* labels is represented by the rows listed positive, negative, neutral.   *)

Labels == {"positive", "negative", "neutral"}

\* pd.DataFrame(): no columns, no rows
EmptyFrame == [columns |-> {}, rows |-> <<>>]

\* a frame whose rows went through lines 214-215 / 259-300
ScoredFrame(rows) == [columns |-> {"date", "sentiment", "compound"}, rows |-> rows]

\* a rows of label positive, b of negative, c of neutral
Rows(a, b, c) ==
    [i \in 1..(a + b + c) |->
        IF i <= a THEN "positive" ELSE IF i <= a + b THEN "negative" ELSE "neutral"]

\* every 'sentiment' column of k rows, up to row order
ColumnsOfLen(k) == {Rows(a, b, k - a - b) : <<a, b>> \in {q \in (0..k) \X (0..k) : q[1] + q[2] <= k}}

\* df.empty
IsEmpty(df) == df.rows = <<>>

\* len(df[df['sentiment'] == label]) and list.count(label)
Count(rows, label) == Len(SelectSeq(rows, LAMBDA x : x = label))

\* None in an error slot; the code only tests the slot's truthiness
NoError == ""

----------------------------------------------------------------------------
(* get_stock_news, without its cache.  `up` is what the uncached body      *)
(* meets: the provider raising, returning nothing, returning records that  *)
(* are not dicts, or returning n articles inside the lookback window; the  *)
(* rows that survive head(max_articles) are labelled `scored` by the       *)
(* scorer.                                                                 *)

\* max_articles = max_tweets = 50 of get_sentiment_summary, scaled down
SummaryMaxItems == 3

\* articles the provider can return inside the lookback window
MaxInWindow == SummaryMaxItems + 1

\* messages of the exceptions the provider (or the scoring) can raise
ExceptionMessages == {"timeout"}

\* rows of news_df after the padding of lines 180-208, before head()
PaddedLen(n, max_articles) ==
    IF n > 0 /\ 2 * n < max_articles THEN n + 3 * n ELSE n

\* rows of news_df after head(max_articles), line 211
KeptLen(n, max_articles) == Min(PaddedLen(n, max_articles), max_articles)

\* the provider is not contacted (cache hit)
NoFetch == [kind |-> "unused"]

UpstreamOutcomes(max_articles) ==
    {[kind |-> "raise", msg |-> m] : m \in ExceptionMessages}
    \cup {[kind |-> "none"], [kind |-> "unparsed"]}
    \cup UNION {{[kind |-> "ok", scored |-> rows] :
                    rows \in ColumnsOfLen(KeptLen(n, max_articles))} :
                 n \in 0..MaxInWindow}

Return(df, error) == [raises |-> FALSE, df |-> df, error |-> error]

Raise(msg) == [raises |-> TRUE, msg |-> msg]

\* lines 82-219: the try block
news_try_block(up, max_articles) ==
    CASE up.kind = "raise" -> Raise(up.msg)
      [] up.kind = "none" -> Return(EmptyFrame, "No news found for this stock.")
      [] up.kind = "unparsed" ->
            Return(EmptyFrame, "Could not parse news data structure.")
      [] OTHER -> Return(ScoredFrame(up.scored), NoError)

\* get_stock_news with the try block replaced by a bare call (no handler)
get_stock_news_unguarded(up, max_articles) == news_try_block(up, max_articles)

\* lines 69-221
get_stock_news(up, max_articles) ==
    LET r == news_try_block(up, max_articles)
    IN IF r.raises
       THEN Return(EmptyFrame, "Error fetching news: " \o r.msg)
       ELSE r

\* the labels the scorer can give the posts generated from `news` (three
\* per news row, lines 251-300) that survive the sort and head(max_tweets)
TweetScorings(news, max_tweets) ==
    IF news.raises \/ news.error # NoError \/ IsEmpty(news.df) THEN {<<>>}
    ELSE ColumnsOfLen(Min(3 * Len(news.df.rows), max_tweets))

\* get_stock_tweets answering an empty news frame without a message
get_stock_tweets_silent(news, scored, max_tweets) ==
    IF news.raises THEN news
    ELSE IF news.error # NoError THEN Return(EmptyFrame, news.error)
    ELSE IF IsEmpty(news.df) THEN Return(EmptyFrame, NoError)
    ELSE Return(ScoredFrame(scored), NoError)

\* lines 239-309 after the inner get_stock_news call returned `news`
get_stock_tweets(news, scored, max_tweets) ==
    IF news.raises THEN news
    ELSE IF news.error # NoError THEN Return(EmptyFrame, news.error)
    ELSE IF IsEmpty(news.df)
    THEN Return(EmptyFrame, "No news found to generate tweet data.")
    ELSE Return(ScoredFrame(scored), NoError)

----------------------------------------------------------------------------
(* st.cache_data(ttl=3600): one entry per key, valid while age < ttl.      *)
(* Time advances in steps of TickSeconds.                                  *)

ttl == 3600

TickSeconds == 1800

NoEntry == [cached |-> FALSE]

\* no function body ran
NoFetches == [news |-> FALSE, tweets |-> FALSE, inner |-> FALSE]

Entry(value) == [cached |-> TRUE, value |-> value, age |-> 0]

\* Hit with entries that are only valid at the moment they were written
HitFresh(entry) == entry.cached /\ entry.age = 0

Hit(entry) == entry.cached /\ entry.age < ttl

\* the entry dt seconds later; an expired entry is dropped
Aged(entry, dt) ==
    IF ~entry.cached \/ entry.age + dt >= ttl THEN NoEntry
    ELSE [entry EXCEPT !.age = @ + dt]

\* what an uncached call can meet; nothing on a hit
Fetches(cache, max_articles) ==
    IF Hit(cache) THEN {NoFetch} ELSE UpstreamOutcomes(max_articles)

\* cached_get_stock_news storing only the results that carry no error
cached_get_stock_news_errors_unstored(cache, up, max_articles) ==
    IF Hit(cache) THEN [ret |-> cache.value, news_cache |-> cache]
    ELSE LET r == get_stock_news(up, max_articles)
         IN [ret |-> r,
             news_cache |-> IF r.raises \/ r.error # NoError THEN cache
                            ELSE Entry(r)]

\* the decorated get_stock_news: the value returned and the entry afterwards
\* (an exception leaving the function stores nothing)
cached_get_stock_news(cache, up, max_articles) ==
    IF Hit(cache) THEN [ret |-> cache.value, news_cache |-> cache]
    ELSE LET r == get_stock_news(up, max_articles)
         IN [ret |-> r, news_cache |-> IF r.raises THEN cache ELSE Entry(r)]

\* the decorated get_stock_tweets; its body calls the decorated get_stock_news
cached_get_stock_tweets(tcache, ncache, up, scored, max_tweets) ==
    IF Hit(tcache)
    THEN [ret |-> tcache.value, tweets_cache |-> tcache, news_cache |-> ncache]
    ELSE LET inner == cached_get_stock_news(ncache, up, max_tweets)
             r == get_stock_tweets(inner.ret, scored, max_tweets)
         IN [ret |-> r,
             tweets_cache |-> IF r.raises THEN tcache ELSE Entry(r),
             news_cache |-> inner.news_cache]

----------------------------------------------------------------------------
(* get_sentiment_summary, lines 326-410, on the values its two calls       *)
(* returned.  A percentage is the exact rational num / den.                *)

\* (count / total) * 100 without the factor
PctUnscaled(count, total) == [num |-> count, den |-> total]

\* lines 398-400: (count / total_items) * 100
Pct(count, total) == [num |-> count * 100, den |-> total]

PctZero == [num |-> 0, den |-> 1]

NoSummary == [returned |-> FALSE]

\* summary_errors with the failure messages appended as they came
summary_errors_unprefixed(n_error, t_error) ==
    (IF n_error # NoError THEN <<n_error>> ELSE <<>>)
    \o (IF t_error # NoError THEN <<t_error>> ELSE <<>>)

\* lines 339-344
summary_errors(n_error, t_error) ==
    (IF n_error # NoError THEN <<"News error: " \o n_error>> ELSE <<>>)
    \o (IF t_error # NoError THEN <<"Social media error: " \o t_error>> ELSE <<>>)

\* majority_vote with ties won by the first label compared
majority_vote_nonstrict(positive, negative, neutral) ==
    IF positive >= negative /\ positive >= neutral THEN "positive"
    ELSE IF negative >= positive /\ negative >= neutral THEN "negative"
    ELSE "neutral"

\* lines 356-361, repeated at 373-378 and 403-408
majority_vote(positive, negative, neutral) ==
    IF positive > negative /\ positive > neutral THEN "positive"
    ELSE IF negative > positive /\ negative > neutral THEN "negative"
    ELSE "neutral"

\* lines 347 and 364: the guard of a source's block
Counted(df) == ~IsEmpty(df) /\ "sentiment" \in df.columns

build_summary(n_df, n_error, t_df, t_error) ==
    LET news_count == IF Counted(n_df) THEN Len(n_df.rows) ELSE 0
        news_sentiment ==
            IF Counted(n_df)
            THEN majority_vote(Count(n_df.rows, "positive"),
                               Count(n_df.rows, "negative"),
                               Count(n_df.rows, "neutral"))
            ELSE "neutral"
        tweets_count == IF Counted(t_df) THEN Len(t_df.rows) ELSE 0
        social_sentiment ==
            IF Counted(t_df)
            THEN majority_vote(Count(t_df.rows, "positive"),
                               Count(t_df.rows, "negative"),
                               Count(t_df.rows, "neutral"))
            ELSE "neutral"
        total_items == news_count + tweets_count
        all_sentiments ==
            (IF Counted(n_df) THEN n_df.rows ELSE <<>>)
            \o (IF Counted(t_df) THEN t_df.rows ELSE <<>>)
        positive_count == Count(all_sentiments, "positive")
        negative_count == Count(all_sentiments, "negative")
        neutral_count == Count(all_sentiments, "neutral")
    IN [overall_sentiment |->
            IF total_items > 0
            THEN majority_vote(positive_count, negative_count, neutral_count)
            ELSE "neutral",
        news_sentiment |-> news_sentiment,
        social_sentiment |-> social_sentiment,
        news_count |-> news_count,
        tweets_count |-> tweets_count,
        positive_pct |->
            IF total_items > 0 THEN Pct(positive_count, total_items) ELSE PctZero,
        negative_pct |->
            IF total_items > 0 THEN Pct(negative_count, total_items) ELSE PctZero,
        neutral_pct |->
            IF total_items > 0 THEN Pct(neutral_count, total_items) ELSE PctZero,
        errors |-> summary_errors(n_error, t_error)]

----------------------------------------------------------------------------
(* get_sentiment_stats, lines 185-260.  A row of the frame is the dict the *)
(* scorer returns for the row's text (line 213); an average is the exact   *)
(* rational num / den.                                                     *)

\* the columns lines 216-220 assign
ScoreColumns == {"sentiment", "compound", "positive", "negative", "neutral"}

\* the dicts the scorer returns for three texts: a decisive positive one, a
\* decisive negative one and a neutral one
ScoreSamples ==
    {enhanced_sentiment_analysis(Str(<<"a">>), FALSE, l, [polarity |-> l.compound,
                                                          subjectivity |-> 1000]) :
        l \in {[pos |-> 2000, neg |-> 0, neu |-> 0, compound |-> 2000],
               [pos |-> 0, neg |-> 2000, neu |-> 0, compound |-> -2000],
               [pos |-> 0, neg |-> 0, neu |-> 2000, compound |-> 0]}}

\* a frame with a text column, one row per text
TextFrame(rows) == [columns |-> {"text"}, rows |-> rows]

\* the 'sentiment' column of scored rows
SentimentColumn(rows) == [i \in 1..Len(rows) |-> rows[i].sentiment]

RECURSIVE SumOf(_, _)
SumOf(rows, field) ==
    IF rows = <<>> THEN 0 ELSE Head(rows)[field] + SumOf(Tail(rows), field)

\* df[field].mean()
Mean(rows, field) == [num |-> SumOf(rows, field), den |-> Len(rows)]

\* lines 197-210
EmptyStats ==
    [positive_count |-> 0, negative_count |-> 0, neutral_count |-> 0,
     total_count |-> 0,
     positive_pct |-> PctZero, negative_pct |-> PctZero, neutral_pct |-> PctZero,
     avg_compound |-> PctZero, avg_positive |-> PctZero,
     avg_negative |-> PctZero, avg_neutral |-> PctZero,
     primary_sentiment |-> "neutral"]

\* lines 222-260 on the scored rows; primary is the label line 240-245 picks
StatsOf(rows, primary) ==
    LET labels == SentimentColumn(rows)
        total_count == Len(rows)
    IN [positive_count |-> Count(labels, "positive"),
        negative_count |-> Count(labels, "negative"),
        neutral_count |-> Count(labels, "neutral"),
        total_count |-> total_count,
        positive_pct |-> Pct(Count(labels, "positive"), total_count),
        negative_pct |-> Pct(Count(labels, "negative"), total_count),
        neutral_pct |-> Pct(Count(labels, "neutral"), total_count),
        avg_compound |-> Mean(rows, "compound"),
        avg_positive |-> Mean(rows, "positive"),
        avg_negative |-> Mean(rows, "negative"),
        avg_neutral |-> Mean(rows, "neutral"),
        primary_sentiment |-> primary]

\* get_sentiment_stats taking the label of the first row as the primary one
get_sentiment_stats_first_row(df) ==
    IF IsEmpty(df) \/ "text" \notin df.columns
    THEN [ret |-> EmptyStats, df |-> df]
    ELSE [ret |-> StatsOf(df.rows, df.rows[1].sentiment),
          df |-> [df EXCEPT !.columns = @ \cup ScoreColumns]]

\* the dict returned, and the caller's frame after the call
get_sentiment_stats(df) ==
    IF IsEmpty(df) \/ "text" \notin df.columns
    THEN [ret |-> EmptyStats, df |-> df]
    ELSE LET labels == SentimentColumn(df.rows)
         IN [ret |-> StatsOf(df.rows,
                             majority_vote(Count(labels, "positive"),
                                           Count(labels, "negative"),
                                           Count(labels, "neutral"))),
             df |-> [df EXCEPT !.columns = @ \cup ScoreColumns]]

----------------------------------------------------------------------------
(* get_stock_news and get_stock_tweets row by row (specification SpecFeed). *)
(* A timestamp is a number of minutes relative to the moment of the call   *)
(* (now = 0, the host clock taken as UTC).  The labels the scorer adds to  *)
(* each row (lines 214-215, 256-297) are the subject of Spec and SpecScore *)
(* and are not carried here.                                               *)

MinutesPerDay == 1440

\* records the provider can return in one answer
MaxBatch == 2

\* largest max_articles / max_tweets argument
MaxItems == 3

\* the `days` arguments; the provider's dates are taken relative to the cutoff
DaysSamples == {1}

\* cutoff_date, line 168
Cutoff(d) == 0 - d * MinutesPerDay

\* publication times: just outside the window, just inside it, an hour ago
PublishSamples(d) == {Cutoff(d) - 1, Cutoff(d) + 10, -60}

\* the title of the i-th record of an answer, when it has one
Headlines == <<"h1", "h2", "h3", "h4">>

\* the 'date' a record carries: a parseable string, none, or a string that
\* pd.to_datetime rejects
RecordDates(d) ==
    {[kind |-> "iso", at |-> t] : t \in PublishSamples(d)}
    \cup {[kind |-> "missing", at |-> 0], [kind |-> "unparseable", at |-> 0]}

\* one element of stock.news: a dict, or something that is not a dict
ProviderRecords(d) ==
    {[shape |-> "dict", titled |-> b, date |-> dt] :
        b \in BOOLEAN, dt \in RecordDates(d)}
    \cup {[shape |-> "other", titled |-> FALSE,
           date |-> [kind |-> "missing", at |-> 0]]}

\* what line 85 can meet: an exception, or a list of records
ProviderAnswers(d) ==
    {[kind |-> "raise", msg |-> m, items |-> <<>>] : m \in ExceptionMessages}
    \cup {[kind |-> "list", msg |-> "", items |-> b] :
            b \in SeqsUpTo(ProviderRecords(d), MaxBatch)}

NewsColumns == {"title", "publisher", "link", "date", "sentiment", "compound"}

\* the keys of the dicts appended at lines 259-266, 276-283, 293-300
TweetColumns == {"text", "date", "sentiment", "compound", "retweets", "likes"}

ItemFrame(columns, rows) == [columns |-> columns, rows |-> rows]

\* lines 93-132: one news_item per dict, title defaulted
processed_news(items) ==
    LET Item(i) == [title |-> IF items[i].titled THEN Headlines[i] ELSE "No title",
                    date |-> items[i].date]
        Dicts == SelectSeq([i \in 1..Len(items) |-> i],
                           LAMBDA i : items[i].shape = "dict")
    IN [k \in 1..Len(Dicts) |-> Item(Dicts[k])]

NaT == [known |-> FALSE, at |-> 0]

Timestamp(t) == [known |-> TRUE, at |-> t]

\* lines 143-148: the whole column is converted at once; if pd.to_datetime
\* raises on any cell, every cell becomes datetime.now()
to_datetime(rows) ==
    IF \E i \in 1..Len(rows) : rows[i].date.kind = "unparseable"
    THEN [i \in 1..Len(rows) |-> [title |-> rows[i].title, date |-> Timestamp(0)]]
    ELSE [i \in 1..Len(rows) |->
            [title |-> rows[i].title,
             date |-> IF rows[i].date.kind = "iso"
                      THEN Timestamp(rows[i].date.at) ELSE NaT]]

\* line 171: news_df[news_df['date'] >= cutoff_date]; NaT compares False
in_window(rows, d) ==
    LET kept == SelectSeq(rows, LAMBDA r : r.date.known /\ r.date.at >= Cutoff(d))
    IN [i \in 1..Len(kept) |-> [title |-> kept[i].title, date |-> kept[i].date.at]]

RECURSIVE InsertByDate(_, _)
InsertByDate(row, sorted) ==
    IF sorted = <<>> THEN <<row>>
    ELSE IF Head(sorted).date >= row.date
    THEN <<Head(sorted)>> \o InsertByDate(row, Tail(sorted))
    ELSE <<row>> \o sorted

RECURSIVE sort_values(_)
\* df.sort_values('date', ascending=False); rows of equal date keep their
\* order here (pandas does not promise an order among them)
sort_values(rows) ==
    IF rows = <<>> THEN <<>>
    ELSE InsertByDate(rows[Len(rows)], sort_values(SubSeq(rows, 1, Len(rows) - 1)))

\* df.head(n)
head(rows, n) == SubSeq(rows, 1, Min(n, Len(rows)))

\* np.random.randint(30, 180): the smallest and the largest draw
NewsJitterSamples == {30, 179}

\* lines 185-201: the three variations of one row, jit their three draws
title_variations(row, ticker, jit) ==
    <<[title |-> "Report: " \o row.title, date |-> row.date - jit[1]],
      [title |-> row.title \o " - Analysis", date |-> row.date - jit[2]],
      [title |-> ticker \o " Update: " \o row.title, date |-> row.date - jit[3]]>>

RECURSIVE Flatten(_)
Flatten(ss) == IF ss = <<>> THEN <<>> ELSE Head(ss) \o Flatten(Tail(ss))

\* the draws the padding of n rows makes
NewsDraws(n) == [1..n -> [1..3 -> NewsJitterSamples]]

\* rows that get variations: all of them if 0 < n < max_articles / 2
PaddedRows(n, max_articles) == IF n > 0 /\ 2 * n < max_articles THEN n ELSE 0

\* lines 174-211
news_rows(original_news, ticker, max_articles, draws) ==
    LET sorted == sort_values(original_news)
        variations ==
            Flatten([i \in 1..Len(draws) |->
                        title_variations(sorted[i], ticker, draws[i])])
    IN head(IF variations = <<>> THEN sorted
            ELSE sort_values(sorted \o variations),
            max_articles)

\* rows of original_news for an answer (lines 93-177)
original_news(answer, d) == in_window(to_datetime(processed_news(answer.items)), d)

\* lines 69-221 row by row
get_stock_news_rows(answer, ticker, d, max_articles, draws) ==
    IF answer.kind = "raise"
    THEN Return(EmptyFrame, "Error fetching news: " \o answer.msg)
    ELSE IF answer.items = <<>>
    THEN Return(EmptyFrame, "No news found for this stock.")
    ELSE IF processed_news(answer.items) = <<>>
    THEN Return(EmptyFrame, "Could not parse news data structure.")
    ELSE Return(ItemFrame(NewsColumns,
                          news_rows(original_news(answer, d), ticker,
                                    max_articles, draws)),
                NoError)

\* the ticker of the calls of SpecFeed
FeedTicker == "AAPL"

\* ticker.replace('.', '') on the modelled tickers
RemoveDots(ticker) ==
    CASE ticker = "BRK.B" -> "BRKB"
      [] OTHER -> ticker

\* the draws of lines 261, 278, 295 for one news row: each the smallest or
\* the largest value of np.random.randint(0, 60*24 | 120*24 | 90*24)
TweetJitterSamples ==
    {<<0, 0, 0>>, <<1439, 0, 2159>>, <<0, 2879, 0>>}

\* np.random.choice(prefix_options), np.random.choice(suffix_options)
PrefixSamples == {"Breaking:"}

SuffixSamples == {"Thoughts?"}

\* the draws the generation from n news rows makes
TweetDraws(n) ==
    [1..n -> [jitter : TweetJitterSamples, prefix : PrefixSamples,
              suffix : SuffixSamples]]

\* lines 253-300: the three posts generated from one news row
tweet_variations(row, ticker, draw) ==
    LET tag == " #" \o RemoveDots(ticker)
    IN <<[text |-> row.title \o tag, date |-> row.date - draw.jitter[1]],
         [text |-> draw.prefix \o " " \o row.title \o tag,
          date |-> row.date - draw.jitter[2]],
         [text |-> row.title \o " " \o draw.suffix \o tag,
          date |-> row.date - draw.jitter[3]]>>

\* lines 248-300: the list `tweets` in generation order
generated_tweets(rows, ticker, draws) ==
    Flatten([i \in 1..Len(rows) |-> tweet_variations(rows[i], ticker, draws[i])])

\* how many rows the generation reads from what get_stock_news returned
SourceRows(news) ==
    IF news.error # NoError \/ IsEmpty(news.df) THEN 0 ELSE Len(news.df.rows)

\* get_stock_tweets_rows truncating the generation order and sorting after
get_stock_tweets_rows_head_first(news, ticker, max_tweets, draws) ==
    IF news.error # NoError THEN Return(EmptyFrame, news.error)
    ELSE IF IsEmpty(news.df)
    THEN Return(EmptyFrame, "No news found to generate tweet data.")
    ELSE Return(ItemFrame(TweetColumns,
                          sort_values(head(generated_tweets(news.df.rows, ticker, draws),
                                           max_tweets))),
                NoError)

\* lines 239-309 row by row, `news` being what line 239 received
get_stock_tweets_rows(news, ticker, max_tweets, draws) ==
    IF news.error # NoError THEN Return(EmptyFrame, news.error)
    ELSE IF IsEmpty(news.df)
    THEN Return(EmptyFrame, "No news found to generate tweet data.")
    ELSE Return(ItemFrame(TweetColumns,
                          head(sort_values(generated_tweets(news.df.rows, ticker, draws)),
                               max_tweets)),
                NoError)

----------------------------------------------------------------------------
(* render_sentiment_dashboard, lines 32-112 and the titles of lines 194,   *)
(* 219 and 348.  Streamlit runs the whole script again after every widget  *)
(* interaction.  A stored result is represented by the arguments it was    *)
(* computed for.  The two checkboxes only hide sections and are left out.  *)

\* how many of the ten default tickers of a market are considered
TickersPerMarket == 2

market_options == <<"India (NSE)", "India (BSE)", "US">>

\* lines 46-60
default_tickers(market) ==
    SubSeq(CASE market = "India (NSE)" ->
                  <<"RELIANCE.NS", "TCS.NS", "HDFCBANK.NS", "INFY.NS",
                    "ICICIBANK.NS", "HINDUNILVR.NS", "SBIN.NS", "AXISBANK.NS",
                    "BAJFINANCE.NS", "KOTAKBANK.NS">>
             [] market = "India (BSE)" ->
                  <<"RELIANCE.BO", "TCS.BO", "HDFCBANK.BO", "INFY.BO",
                    "ICICIBANK.BO", "HINDUNILVR.BO", "SBIN.BO", "AXISBANK.BO",
                    "BAJFINANCE.BO", "KOTAKBANK.BO">>
             [] OTHER ->
                  <<"AAPL", "MSFT", "AMZN", "GOOGL", "META",
                    "TSLA", "NVDA", "BRK-B", "JPM", "JNJ">>,
           1, TickersPerMarket)

\* what the user can type into the text input ("" leaves it empty)
CustomTickers == {"", "^GSPC"}

days_options == <<1, 3, 7, 14, 30>>

Range(f) == {f[i] : i \in DOMAIN f}

\* 'sentiment_summary' not in st.session_state
NoSession == [stored |-> FALSE]

\* lines 102-112: the three results of one fetch, each named by the call
\* that produced it
StoredResults(ticker, d) ==
    [stored |-> TRUE,
     sentiment_summary |-> [ticker |-> ticker],
     news_df |-> [ticker |-> ticker, days |-> d, max_articles |-> 20],
     tweets_df |-> [ticker |-> ticker, days |-> d, max_tweets |-> 30]]

\* lines 78-79
sentiment_ticker(selected, custom) == IF custom # "" THEN custom ELSE selected

\* lines 99-112: the session after one run of the script
session_after(session, ticker, d, analyze_button) ==
    IF analyze_button \/ ~session.stored THEN StoredResults(ticker, d)
    ELSE session

\* lines 115-198, 207-219, 341-348: the titles name the current selection,
\* the data comes from the session
page(session, ticker, d) ==
    [invoked |-> TRUE,
     distribution_title |-> ticker,
     summary |-> session.sentiment_summary,
     news_title |-> ticker,
     news_df |-> session.news_df,
     social_title |-> ticker,
     tweets_df |-> session.tweets_df]

\* lines 244-250 and 374-380: the key of SENTIMENT_COLORS a marker gets from
\* the compound of its item
marker_color(x) ==
    IF x > LabelThreshold THEN "positive"
    ELSE IF x < -LabelThreshold THEN "negative"
    ELSE "neutral"

----------------------------------------------------------------------------
(* Idle values: the variables a specification does not use.                *)

ScorerIdle ==
    /\ pc = "idle"
    /\ text = PyNone
    /\ raised = FALSE
    /\ lexicon = ZeroScores
    /\ blob = [polarity |-> 0, subjectivity |-> 0]
    /\ vader_scores = NotInvoked
    /\ textblob_polarity = NotInvoked
    /\ result = NotInvoked

SummaryIdle ==
    /\ news_cache = NoEntry
    /\ tweets_cache = NoEntry
    /\ news_df = EmptyFrame
    /\ news_error = NoError
    /\ tweets_df = EmptyFrame
    /\ tweets_error = NoError
    /\ summary = NoSummary
    /\ outcome = "none"
    /\ fetched = NoFetches

FeedIdle ==
    /\ provider = [kind |-> "list", msg |-> "", items |-> <<>>]
    /\ days = 1
    /\ max_items = 1
    /\ news_ret = NotInvoked
    /\ tweets = <<>>
    /\ tweets_ret = NotInvoked

NormalizerIdle ==
    /\ raw = PyNone
    /\ cleaned = NotInvoked

AggregateIdle ==
    /\ collection = <<>>
    /\ shuffled = <<>>
    /\ news_len = 0
    /\ stats = NotInvoked

\* the two concurrent requests of one key
Requests == {1, 2}

NotStarted == [pc |-> "start", ret |-> NotInvoked]

RaceIdle ==
    /\ called = "none"
    /\ compute_value_lock = FALSE
    /\ feed_cache = NoEntry
    /\ requests = [i \in Requests |-> NotStarted]

PostIdle ==
    /\ row_title = PyNone
    /\ symbol = <<>>
    /\ base_post = NotInvoked

\* the widgets at their defaults (index=0, value="", value=7), nothing run
DashboardIdle ==
    /\ sentiment_market = market_options[1]
    /\ ticker_select = default_tickers(market_options[1])[1]
    /\ custom_sentiment_ticker = ""
    /\ days_back = 7
    /\ session_state = NoSession
    /\ rendered = NotInvoked

----------------------------------------------------------------------------
(* Specification SpecScore: one call of enhanced_sentiment_analysis on     *)
(* every argument, library answer and exception outcome within the bounds. *)

ScorerInputs ==
    {Str(s) : s \in SeqsUpTo(ScorerAlphabet, MaxTextLen)} \cup {PyNone, PyNaN}

InitScore ==
    /\ pc = "call"
    /\ text \in ScorerInputs
    /\ raised \in BOOLEAN
    /\ lexicon \in LexiconOutputs
    /\ blob \in BlobOutputs
    /\ vader_scores = NotInvoked
    /\ textblob_polarity = NotInvoked
    /\ result = NotInvoked
    /\ SummaryIdle /\ FeedIdle /\ NormalizerIdle /\ AggregateIdle /\ RaceIdle /\ DashboardIdle /\ PostIdle

\* the whole call: early return, or normalisation, both models and a blend
Score ==
    /\ pc = "call"
    /\ pc' = "done"
    /\ result' = enhanced_sentiment_analysis(text, raised, lexicon, blob)
    /\ IF ~Truthy(text) \/ ~isinstance_str(text)
       THEN UNCHANGED <<text, vader_scores, textblob_polarity>>
       ELSE /\ text' = preprocess_text(text)
            /\ vader_scores' = polarity_scores(text', lexicon)
            /\ textblob_polarity' = TextBlobSentiment(text', blob).polarity
    /\ UNCHANGED <<raised, lexicon, blob>>
    /\ UNCHANGED <<summaryVars, feedVars, normalizerVars, aggregateVars, raceVars, dashboardVars, postVars>>

NextScore == Score

SpecScore == InitScore /\ [][NextScore]_vars

----------------------------------------------------------------------------
(* Properties of the scorer (checked under SpecScore).                     *)

Returned == pc = "done"

\* the call went past the early return: both models were run
ModelsInvoked == Returned /\ vader_scores # NotInvoked

\* the argument was empty, not a string, or normalised to the empty string
Degenerate == Returned /\ (~isinstance_str(text) \/ text.chars = <<>>)

NonDegenerate == Returned /\ isinstance_str(text) /\ text.chars # <<>>

\* the label the fixed thresholds give to a compound value
ThresholdLabel(c) ==
    IF c >= LabelThreshold THEN "positive"
    ELSE IF c <= -LabelThreshold THEN "negative"
    ELSE "neutral"

\* C1: every empty, None / non-string, or normalises-to-empty input is
\* scored compound = 0, positive = 0, negative = 0, neutral = 1 and
\* labelled neutral.
DegenerateIsFixedNeutral ==
    Degenerate =>
        /\ result.compound = 0
        /\ result.positive = 0
        /\ result.negative = 0
        /\ result.neutral = One
        /\ result.sentiment = "neutral"

\* C2 (as claimed): for every non-degenerate text the returned compound is
\* lexicon compound * 0.7 + polarity * 0.3 on the normalised text.
CompoundIsCanonicalBlend ==
    NonDegenerate =>
        result.compound =
            Scale(vader_scores.compound, 7, 10) + Scale(textblob_polarity, 3, 10)

\* C2 (amended): for every non-degenerate text scored by the except block
\* (the primary block raised) the returned compound is lexicon compound *
\* 0.7 + polarity * 0.3 on the normalised text.
FallbackCompoundIsCanonicalBlend ==
    (NonDegenerate /\ raised) =>
        result.compound =
            Scale(vader_scores.compound, 7, 10) + Scale(textblob_polarity, 3, 10)

\* C2 witness: the except block blended two non-zero model outputs.
WitnessFallbackBlend ==
    /\ NonDegenerate /\ raised
    /\ vader_scores.compound = 2000 /\ textblob_polarity = -1000
    /\ result.compound = 1100

\* C3 (as claimed): the label of every scored item follows the thresholds
\* on its compound: >= 0.05 positive, <= -0.05 negative, otherwise neutral.
LabelFollowsThresholds ==
    Returned => result.sentiment = ThresholdLabel(result.compound)

\* C3 (amended): the label of every item scored by the except block, and of
\* every item answered by the early return, follows the thresholds on its
\* compound, boundaries inclusive.
FallbackLabelFollowsThresholds ==
    (Returned /\ (raised \/ ~ModelsInvoked)) =>
        result.sentiment = ThresholdLabel(result.compound)

\* C3 witness: the except block labelled a compound of exactly 0.05.
WitnessThresholdBoundary ==
    /\ NonDegenerate /\ raised
    /\ result.compound = LabelThreshold
    /\ result.sentiment = "positive"

\* every (compound, label) pair the primary block can return
PrimaryPairs ==
    {<<r.compound, r.sentiment>> :
        r \in {enhanced_sentiment_analysis(v, FALSE, l, b) :
                  v \in ScorerInputs, l \in LexiconOutputs, b \in BlobOutputs}}

\* every (compound, label) pair the except block can return
FallbackPairs ==
    {<<r.compound, r.sentiment>> :
        r \in {enhanced_sentiment_analysis(v, TRUE, l, b) :
                  v \in ScorerInputs, l \in LexiconOutputs, b \in BlobOutputs}}

\* C4 (as claimed): any two results of the scorer with the same compound
\* carry the same label, whichever block produced them.
LabelIsFunctionOfCompound ==
    Returned =>
        \A q \in PrimaryPairs \cup FallbackPairs :
            q[1] = result.compound => q[2] = result.sentiment

\* C4 (amended): any two results produced by the same block of the scorer
\* with the same compound carry the same label.
LabelIsFunctionOfCompoundPerBlock ==
    Returned =>
        \A q \in (IF raised THEN FallbackPairs ELSE PrimaryPairs) :
            q[1] = result.compound => q[2] = result.sentiment

\* C4 witness: two inputs with different sub-scores met on one non-zero
\* compound in the except block.
WitnessSameCompound ==
    /\ NonDegenerate /\ raised
    /\ result.compound = 70 /\ result.positive = 2000
    /\ \E l \in LexiconOutputs, b \in BlobOutputs :
          /\ l.pos # 2000
          /\ FallbackBlend(l, b.polarity, b.subjectivity).compound = 70

\* C5 (as claimed): for every non-degenerate text the positive, negative
\* and neutral sub-scores are the lexicon model's pos, neg and neu.
SubScoresAreLexicon ==
    NonDegenerate =>
        /\ result.positive = vader_scores.pos
        /\ result.negative = vader_scores.neg
        /\ result.neutral = vader_scores.neu

\* C5 (amended): for every non-degenerate text scored by the except block
\* the positive, negative and neutral sub-scores are the lexicon model's
\* pos, neg and neu.
FallbackSubScoresAreLexicon ==
    (NonDegenerate /\ raised) =>
        /\ result.positive = vader_scores.pos
        /\ result.negative = vader_scores.neg
        /\ result.neutral = vader_scores.neu

\* C5 witness: the except block returned three distinct lexicon sub-scores
\* next to a polarity that would have changed them in a blend.
WitnessFallbackSubScores ==
    /\ NonDegenerate /\ raised
    /\ textblob_polarity = 1000
    /\ result.positive = 400 /\ result.negative = 1200 /\ result.neutral = 400

\* C17: for every input and all model outputs within their ranges the
\* returned compound lies in [-1.0, 1.0].
CompoundInRange ==
    Returned => (-One <= result.compound /\ result.compound <= One)

\* C17 witness: the primary block computed 0.6 + (1.0 - 0.55) * 2 = 1.5 and
\* returned 1.0.
WitnessCompoundClamped ==
    /\ NonDegenerate /\ ~raised
    /\ result.positive = One
    /\ result.compound = One

\* C18 (as claimed): for every input the positive, negative and neutral
\* sub-scores returned are each non-negative and together sum to 1.
SubScoresSumToOne ==
    Returned =>
        /\ result.positive >= 0 /\ result.negative >= 0 /\ result.neutral >= 0
        /\ result.positive + result.negative + result.neutral = One

\* C20 (as claimed): for a degenerate input, including a non-empty string
\* that normalises to the empty string, the scorer returns the fixed neutral
\* score without invoking the lexicon model or the polarity model.
DegenerateSkipsModels ==
    Degenerate => (~ModelsInvoked /\ result = NeutralScore)

\* the try block answered: the call passed the early return and did not raise
Sharpened == ModelsInvoked /\ ~raised

\* C21: in the sharpened blend the label is positive exactly when
\* positive_score > negative_score and positive_score > 0.55, and then the
\* compound lies in [0.6, 1.0]; negative exactly when negative_score >
\* positive_score and negative_score > 0.55, and then the compound lies in
\* [-1.0, -0.6]; otherwise the label is neutral and the compound lies
\* strictly between -0.6 and 0.6.
SharpenedBandsMatchLabels ==
    Sharpened =>
        LET p == result.positive
            n == result.negative
            c == result.compound
        IN /\ result.sentiment = "positive" <=> (p > n /\ p > SharpThreshold)
           /\ result.sentiment = "negative" <=> (n > p /\ n > SharpThreshold)
           /\ result.sentiment \in Labels
           /\ result.sentiment = "positive" => (BandBase <= c /\ c <= One)
           /\ result.sentiment = "negative" => (-One <= c /\ c <= -BandBase)
           /\ result.sentiment = "neutral" => (-BandBase < c /\ c < BandBase)

\* C21 witness: positive_score is exactly 0.55 with nothing negative: the
\* label stays neutral and the compound is 0.275.
WitnessAtSharpThreshold ==
    /\ Sharpened
    /\ result.positive = SharpThreshold
    /\ result.negative = 0
    /\ result.sentiment = "neutral"
    /\ result.compound = 550

\* C29: for every item plotted in the time-series charts, the colour class
\* chosen from the item's compound (positive above 0.05, negative below
\* -0.05, neutral otherwise) is the item's stored sentiment label.
MarkerColorIsStoredLabel ==
    Returned => marker_color(result.compound) = result.sentiment

----------------------------------------------------------------------------
(* Specification Spec: the process calls get_sentiment_summary again and   *)
(* again while time passes and the provider's answers change.              *)

Init ==
    ScorerIdle /\ SummaryIdle /\ FeedIdle /\ NormalizerIdle /\ AggregateIdle /\ RaceIdle /\ DashboardIdle /\ PostIdle

\* one call of get_sentiment_summary(ticker): lines 323-324, with dt
\* seconds passing between the two calls, then lines 326-410
GetSentimentSummary ==
    \E up1 \in Fetches(news_cache, SummaryMaxItems) :
      LET first == cached_get_stock_news(news_cache, up1, SummaryMaxItems)
      IN IF first.ret.raises
         THEN /\ outcome' = "raised"
              /\ summary' = NoSummary
              /\ news_cache' = first.news_cache
              /\ fetched' = [NoFetches EXCEPT !.news = TRUE]
              /\ UNCHANGED <<tweets_cache, news_df, news_error, tweets_df,
                             tweets_error>>
         ELSE \E dt \in {0, TickSeconds} :
           LET ncache == Aged(first.news_cache, dt)
               tcache == Aged(tweets_cache, dt)
           IN \E up2 \in (IF Hit(tcache) THEN {NoFetch}
                          ELSE Fetches(ncache, SummaryMaxItems)) :
                \E scored \in (IF Hit(tcache) THEN {<<>>}
                               ELSE TweetScorings(
                                      cached_get_stock_news(
                                          ncache, up2, SummaryMaxItems).ret,
                                      SummaryMaxItems)) :
                  LET second == cached_get_stock_tweets(
                                    tcache, ncache, up2, scored, SummaryMaxItems)
                  IN /\ news_cache' = second.news_cache
                     /\ tweets_cache' = second.tweets_cache
                     /\ fetched' = [news |-> ~Hit(news_cache),
                                    tweets |-> ~Hit(tcache),
                                    inner |-> ~Hit(tcache) /\ ~Hit(ncache)]
                     /\ IF second.ret.raises
                        THEN /\ outcome' = "raised"
                             /\ summary' = NoSummary
                             /\ UNCHANGED <<news_df, news_error, tweets_df,
                                            tweets_error>>
                        ELSE /\ outcome' = "returned"
                             /\ news_df' = first.ret.df
                             /\ news_error' = first.ret.error
                             /\ tweets_df' = second.ret.df
                             /\ tweets_error' = second.ret.error
                             /\ summary' = build_summary(
                                              first.ret.df, first.ret.error,
                                              second.ret.df, second.ret.error)

\* TickSeconds pass between two requests; the frame of the previous call
\* and the dict it returned are gone, the cache entries age
Tick ==
    /\ news_cache.cached \/ tweets_cache.cached
    /\ news_cache' = Aged(news_cache, TickSeconds)
    /\ tweets_cache' = Aged(tweets_cache, TickSeconds)
    /\ news_df' = EmptyFrame
    /\ news_error' = NoError
    /\ tweets_df' = EmptyFrame
    /\ tweets_error' = NoError
    /\ summary' = NoSummary
    /\ outcome' = "none"
    /\ fetched' = NoFetches

Next ==
    \/ GetSentimentSummary
          /\ UNCHANGED <<scorerVars, feedVars, normalizerVars, aggregateVars, raceVars, dashboardVars, postVars>>
    \/ Tick /\ UNCHANGED <<scorerVars, feedVars, normalizerVars, aggregateVars, raceVars, dashboardVars, postVars>>

Spec == Init /\ [][Next]_vars

----------------------------------------------------------------------------
(* Properties of get_sentiment_summary (checked under Spec).               *)

SummaryReturned == outcome = "returned"

\* the labels of all items the two sources contributed
AllRows == news_df.rows \o tweets_df.rows

\* the label whose count is strictly greater than both others, else neutral
StrictlyGreatest(rows) ==
    IF \E l \in Labels : \A m \in Labels \ {l} : Count(rows, l) > Count(rows, m)
    THEN CHOOSE l \in Labels : \A m \in Labels \ {l} : Count(rows, l) > Count(rows, m)
    ELSE "neutral"

\* C6: for news, for social and for the combined set the primary label is
\* the label whose count is strictly greater than both other counts, and
\* neutral whenever no label is strictly greatest (ties, empty collection).
PrimaryLabelIsStrictMajority ==
    SummaryReturned =>
        /\ summary.news_sentiment = StrictlyGreatest(news_df.rows)
        /\ summary.social_sentiment = StrictlyGreatest(tweets_df.rows)
        /\ summary.overall_sentiment = StrictlyGreatest(AllRows)

\* C6 witness: positive wins the news, and ties with negative for first
\* place over all items, so the overall label is neutral.
WitnessTieIsNeutral ==
    /\ SummaryReturned
    /\ summary.news_sentiment = "positive"
    /\ Count(AllRows, "positive") = Count(AllRows, "negative")
    /\ Count(AllRows, "positive") > Count(AllRows, "neutral")
    /\ summary.overall_sentiment = "neutral"

\* the rational p equals 100 * count / total
IsPercentageOf(p, count, total) == p.num * total = 100 * count * p.den

NoItems == SummaryReturned /\ IsEmpty(news_df) /\ IsEmpty(tweets_df)

ZeroAndNeutral ==
    /\ summary.news_count + summary.tweets_count = 0
    /\ summary.positive_pct.num = 0
    /\ summary.negative_pct.num = 0
    /\ summary.neutral_pct.num = 0
    /\ summary.overall_sentiment = "neutral"
    /\ summary.news_sentiment = "neutral"
    /\ summary.social_sentiment = "neutral"

\* C8 (as claimed): when no source contributes any item the summary has
\* total count 0, all percentages 0, every primary label neutral and an
\* empty errors list.
NoItemsGivesEmptyErrors ==
    NoItems => (ZeroAndNeutral /\ summary.errors = <<>>)

\* C8 (amended): when no source contributes any item the summary has total
\* count 0, all percentages 0 and every primary label neutral; its errors
\* list is then not empty: it ends with the social-media error.
NoItemsGivesZeroSummary ==
    NoItems =>
        /\ ZeroAndNeutral
        /\ summary.errors # <<>>
        /\ summary.errors[Len(summary.errors)] = "Social media error: " \o tweets_error

\* C8 witness: the provider answered without failure but no article lay in
\* the window; the only message comes from the social generator.
WitnessNoItems ==
    /\ NoItems
    /\ news_error = NoError
    /\ summary.errors = <<"Social media error: No news found to generate tweet data.">>

\* C9 (as claimed): every failure message a source returned is an element
\* of errors with exactly the text the source supplied, in source order.
ErrorsAreVerbatim ==
    SummaryReturned =>
        summary.errors = summary_errors_unprefixed(news_error, tweets_error)

\* C9 (amended): every failure message a source returned appears in errors
\* in source order (news, then social), prefixed with "News error: " or
\* "Social media error: " and otherwise unchanged; nothing else is listed.
ErrorsArePrefixedMessages ==
    SummaryReturned =>
        summary.errors =
            (IF news_error # NoError THEN <<"News error: " \o news_error>> ELSE <<>>)
            \o (IF tweets_error # NoError
                THEN <<"Social media error: " \o tweets_error>> ELSE <<>>)

\* C9 witness: the provider raised; both sources report it.
WitnessBothErrors ==
    /\ SummaryReturned
    /\ summary.errors = <<"News error: Error fetching news: timeout",
                          "Social media error: Error fetching news: timeout">>

\* C10: get_sentiment_summary never raises and always returns a summary; a
\* failed source leaves the other source's items counted; when both fail
\* the counts are zero, the labels neutral and both failures are recorded.
SummaryAlwaysReturned ==
    /\ outcome # "raised"
    /\ SummaryReturned =>
        /\ summary.news_count = Len(news_df.rows)
        /\ summary.tweets_count = Len(tweets_df.rows)
        /\ (news_error # NoError /\ tweets_error # NoError) =>
              (ZeroAndNeutral /\ Len(summary.errors) = 2)

\* C10 witness: the news fetch failed while the social items of an earlier
\* computation were still cached; they are counted.
WitnessPartialFailure ==
    /\ SummaryReturned
    /\ news_error = "Error fetching news: timeout"
    /\ tweets_error = NoError
    /\ summary.news_count = 0
    /\ summary.tweets_count = SummaryMaxItems
    /\ Len(summary.errors) = 1

\* column or key names that would mark a row or a summary as generated data
ProvenanceKeys ==
    {"synthetic", "is_synthetic", "derived", "generated", "simulated",
     "source", "data_source", "provenance"}

\* C12 (as claimed): whenever a summary counts generated social posts, the
\* rows of the posts or the summary itself carry a field that marks the data
\* as synthetic / derived.
SyntheticDataIsMarked ==
    (SummaryReturned /\ summary.tweets_count > 0) =>
        (TweetColumns \cup DOMAIN summary) \cap ProvenanceKeys # {}

\* the entry exists and is younger than ttl dt seconds from now
WithinTtl(entry, dt) == entry.cached /\ entry.age + dt < ttl

\* C13: a call of get_stock_news or get_stock_tweets made while the entry of
\* its key is younger than the TTL returns the stored result and runs no
\* function body (no provider fetch, no augmentation); a body runs only when
\* the entry is absent or expired; an entry keeps its value until it expires.
CacheServesStoredResult ==
    [][/\ outcome' = "returned" =>
            /\ WithinTtl(news_cache, 0) =>
                  /\ ~fetched'.news
                  /\ news_df' = news_cache.value.df
                  /\ news_error' = news_cache.value.error
            /\ WithinTtl(tweets_cache, TickSeconds) =>
                  /\ ~fetched'.tweets /\ ~fetched'.inner
                  /\ tweets_df' = tweets_cache.value.df
                  /\ tweets_error' = tweets_cache.value.error
            /\ fetched'.news => ~WithinTtl(news_cache, 0)
            /\ fetched'.tweets => ~WithinTtl(tweets_cache, TickSeconds)
            /\ fetched'.inner => ~WithinTtl(news_cache, TickSeconds)
       /\ WithinTtl(news_cache, TickSeconds) =>
            (news_cache'.cached /\ news_cache'.value = news_cache.value)
       /\ WithinTtl(tweets_cache, TickSeconds) =>
            (tweets_cache'.cached /\ tweets_cache'.value = tweets_cache.value)
      ]_vars

\* C13 witness: TickSeconds after both entries were written a request is
\* answered from them: items are returned and no body ran.
WitnessServedFromCache ==
    /\ SummaryReturned
    /\ ~fetched.news /\ ~fetched.tweets /\ ~fetched.inner
    /\ news_cache.cached /\ news_cache.age = TickSeconds
    /\ tweets_cache.cached /\ tweets_cache.age = TickSeconds
    /\ ~IsEmpty(news_df) /\ ~IsEmpty(tweets_df)

\* C24: in every summary returned, the social collection was generated from
\* the news collection that was counted: tweets_count is min(3 * news_count,
\* max_tweets), and the errors list holds a social-media error whenever it
\* holds a news error, whatever the cache entries and the provider did
\* between the two fetches.
SocialGeneratedFromCountedNews ==
    SummaryReturned =>
        /\ summary.tweets_count = Min(3 * summary.news_count, SummaryMaxItems)
        /\ news_error # NoError =>
              /\ tweets_error # NoError
              /\ \E i \in DOMAIN summary.errors :
                    summary.errors[i] = "Social media error: " \o tweets_error

\* the entry of get_stock_news holds a result that carries an error
ErrorStored(entry) == entry.cached /\ entry.value.error # NoError

\* C25: once get_stock_news has returned an error for a key, the error
\* result is the entry of the key; every call made before the entry is 1 hour
\* old returns that error and the empty collection without running the body
\* (the provider is not contacted, recovered or not); the body runs again
\* only when the entry has expired.
ErrorResultIsCachedUntilExpiry ==
    [][/\ (outcome' = "returned" /\ fetched'.news /\ news_error' # NoError) =>
             /\ ErrorStored(news_cache')
             /\ news_cache'.value = Return(EmptyFrame, news_error')
       /\ (outcome' = "returned" /\ ErrorStored(news_cache)
                /\ WithinTtl(news_cache, 0)) =>
             /\ ~fetched'.news
             /\ news_error' = news_cache.value.error
             /\ IsEmpty(news_df')
       /\ (ErrorStored(news_cache) /\ WithinTtl(news_cache, TickSeconds)) =>
             /\ ~fetched'.news /\ ~fetched'.inner
             /\ news_cache'.cached
             /\ news_cache'.value = news_cache.value
       /\ (fetched'.news \/ fetched'.inner) =>
             (~news_cache.cached \/ ~WithinTtl(news_cache, TickSeconds))
      ]_vars

\* C25 witness: a call made when the error result is half an hour old
\* returns the error and the empty collection and runs no body.
WitnessErrorServedFromCache ==
    /\ SummaryReturned
    /\ ~fetched.news /\ ~fetched.inner
    /\ ErrorStored(news_cache)
    /\ news_cache.age = TickSeconds
    /\ news_error = "Error fetching news: timeout"
    /\ IsEmpty(news_df)
    /\ summary.errors[1] = "News error: Error fetching news: timeout"

----------------------------------------------------------------------------
(* Specification SpecFeed: one call of get_stock_news and, for the same    *)
(* key and at the same moment, one call of get_stock_tweets, on every      *)
(* provider answer and random draw within the bounds.  The inner           *)
(* get_stock_news call of get_stock_tweets (line 239) is served by the     *)
(* cache entry the first call wrote.                                       *)

InitFeed ==
    /\ days \in DaysSamples
    /\ provider \in ProviderAnswers(days)
    /\ max_items \in 1..MaxItems
    /\ news_ret = NotInvoked
    /\ tweets = <<>>
    /\ tweets_ret = NotInvoked
    /\ ScorerIdle /\ SummaryIdle /\ NormalizerIdle /\ AggregateIdle /\ RaceIdle /\ DashboardIdle /\ PostIdle

\* get_stock_news(ticker, days, max_articles = max_items)
GetStockNews ==
    /\ news_ret = NotInvoked
    /\ \E draws \in NewsDraws(PaddedRows(
                      IF provider.kind = "list"
                      THEN Len(original_news(provider, days)) ELSE 0,
                      max_items)) :
          news_ret' = get_stock_news_rows(provider, FeedTicker, days,
                                          max_items, draws)
    /\ UNCHANGED <<provider, days, max_items, tweets, tweets_ret>>

\* get_stock_tweets(ticker, days, max_tweets = max_items)
GetStockTweets ==
    /\ news_ret # NotInvoked
    /\ tweets_ret = NotInvoked
    /\ \E draws \in TweetDraws(SourceRows(news_ret)) :
          /\ tweets' = generated_tweets(
                           IF SourceRows(news_ret) = 0 THEN <<>>
                           ELSE news_ret.df.rows,
                           FeedTicker, draws)
          /\ tweets_ret' = get_stock_tweets_rows(news_ret, FeedTicker,
                                                 max_items, draws)
    /\ UNCHANGED <<provider, days, max_items, news_ret>>

NextFeed ==
    \/ GetStockNews
          /\ UNCHANGED <<scorerVars, summaryVars, normalizerVars, aggregateVars, raceVars, dashboardVars, postVars>>
    \/ GetStockTweets
          /\ UNCHANGED <<scorerVars, summaryVars, normalizerVars, aggregateVars, raceVars, dashboardVars, postVars>>

SpecFeed == InitFeed /\ [][NextFeed]_vars

----------------------------------------------------------------------------
(* Properties of get_stock_news and get_stock_tweets (under SpecFeed).     *)

TweetsReturned == tweets_ret # NotInvoked /\ tweets_ret.error = NoError

\* how many rows of a sequence equal row r
Copies(rows, r) == Len(SelectSeq(rows, LAMBDA x : x = r))

\* C11: for a non-empty news collection and max_tweets = M, get_stock_tweets
\* returns at most M posts, in non-increasing timestamp order, and they are
\* the M newest of the generated posts: all of them if fewer than M were
\* generated, and otherwise every generated post newer than the oldest
\* returned one is returned.
TweetsAreNewestSorted ==
    TweetsReturned =>
        LET rows == tweets_ret.df.rows
            k == Len(rows)
        IN /\ k = Min(max_items, Len(tweets))
           /\ \A i \in 1..(k - 1) : rows[i].date >= rows[i + 1].date
           /\ \A i \in 1..k : Copies(rows, rows[i]) <= Copies(tweets, rows[i])
           /\ \A j \in 1..Len(tweets) :
                 tweets[j].date > rows[k].date =>
                     Copies(rows, tweets[j]) = Copies(tweets, tweets[j])

\* C11 witness: more posts were generated than max_tweets allows, the first
\* generated post is older than every returned one, and a post generated
\* after it is returned.
WitnessTruncatedAfterSort ==
    /\ TweetsReturned
    /\ Len(tweets) > max_items
    /\ max_items > 1
    /\ tweets[1].date < tweets_ret.df.rows[max_items].date
    /\ tweets_ret.df.rows[1].date > tweets_ret.df.rows[max_items].date

NewsReturned == news_ret # NotInvoked

\* every row of a returned frame is dated at or after the cutoff
AllInWindow(ret) ==
    \A i \in 1..Len(ret.df.rows) : ret.df.rows[i].date >= Cutoff(days)

\* C14 (as claimed): every item returned by get_stock_news or
\* get_stock_tweets for a lookback of `days`, fetched or generated, has a
\* timestamp no earlier than now - days.
ItemsInsideWindow ==
    /\ NewsReturned => AllInWindow(news_ret)
    /\ (tweets_ret # NotInvoked) => AllInWindow(tweets_ret)

\* a record with a parseable date inside the lookback window
DatedInWindow(rec) ==
    rec.shape = "dict" /\ rec.date.kind = "iso" /\ rec.date.at >= Cutoff(days)

\* C15 (as claimed): a record with a missing title or a missing or
\* unparseable date is dropped or given defaults without touching the rest
\* of the batch: every record that has a parseable date inside the window
\* is returned with its own title ('No title' if it has none) and its own
\* timestamp, unless head(max_articles) cut the collection, and the fetch
\* reports no error.
BadRecordLeavesOthersIntact ==
    (NewsReturned /\ provider.kind = "list") =>
        \A i \in 1..Len(provider.items) :
            DatedInWindow(provider.items[i]) =>
                /\ news_ret.error = NoError
                /\ \/ Len(news_ret.df.rows) = max_items
                   \/ \E j \in 1..Len(news_ret.df.rows) :
                         news_ret.df.rows[j] =
                            [title |-> IF provider.items[i].titled
                                       THEN Headlines[i] ELSE "No title",
                             date |-> provider.items[i].date.at]

----------------------------------------------------------------------------
(* Specification SpecPadding: one call of get_stock_news with a provider   *)
(* answer of up to MaxPadBatch records and max_articles up to MaxPadItems, *)
(* so that several real articles are padded and then truncated.            *)

MaxPadBatch == 3

MaxPadItems == 8

PaddingAnswers(d) ==
    {[kind |-> "raise", msg |-> m, items |-> <<>>] : m \in ExceptionMessages}
    \cup {[kind |-> "list", msg |-> "", items |-> b] :
            b \in SeqsUpTo(ProviderRecords(d), MaxPadBatch)}

InitPadding ==
    /\ days \in DaysSamples
    /\ provider \in PaddingAnswers(days)
    /\ max_items \in 1..MaxPadItems
    /\ news_ret = NotInvoked
    /\ tweets = <<>>
    /\ tweets_ret = NotInvoked
    /\ ScorerIdle /\ SummaryIdle /\ NormalizerIdle /\ AggregateIdle /\ RaceIdle /\ DashboardIdle /\ PostIdle

NextPadding ==
    GetStockNews
        /\ UNCHANGED <<scorerVars, summaryVars, normalizerVars, aggregateVars, raceVars, dashboardVars, postVars>>

SpecPadding == InitPadding /\ [][NextPadding]_vars

\* the real in-window articles of the answer (news_df at line 177)
RealArticles == IF provider.kind = "list" THEN original_news(provider, days) ELSE <<>>

\* the call added title variations (line 180)
Padded == NewsReturned /\ PaddedRows(Len(RealArticles), max_items) > 0

\* C27: whenever get_stock_news adds generated title variations, every real
\* article is still in the returned collection after the sort and the
\* truncation to max_articles.
PaddingKeepsRealArticles ==
    Padded =>
        \A i \in 1..Len(RealArticles) :
            Copies(news_ret.df.rows, RealArticles[i])
                >= Copies(RealArticles, RealArticles[i])

----------------------------------------------------------------------------
(* Specification SpecRace: two requests call the same decorated function   *)
(* with the same key while its entry is absent.  The decorator looks the   *)
(* key up, runs the body on a miss and stores what it returned.  Whether   *)
(* the misses of one key are serialised depends on the Streamlit release,  *)
(* so both behaviours are admitted.  The provider gives both requests the  *)
(* same answer, and the inner get_stock_news call of get_stock_tweets is   *)
(* served by one stored news result.                                       *)

DecoratedFunctions == {"get_stock_news", "get_stock_tweets"}

InitRace ==
    /\ days \in DaysSamples
    /\ provider \in ProviderAnswers(days)
    /\ max_items \in 1..MaxItems
    /\ news_ret = NotInvoked
    /\ tweets = <<>>
    /\ tweets_ret = NotInvoked
    /\ called \in DecoratedFunctions
    /\ compute_value_lock \in BOOLEAN
    /\ feed_cache = NoEntry
    /\ requests = [i \in Requests |-> NotStarted]
    /\ ScorerIdle /\ SummaryIdle /\ NormalizerIdle /\ AggregateIdle /\ DashboardIdle /\ PostIdle

\* the news result line 239 receives, stored before the two requests arrive
StoreNews == called = "get_stock_tweets" /\ GetStockNews

\* the random draws one run of the body makes
BodyDraws ==
    IF called = "get_stock_news"
    THEN NewsDraws(PaddedRows(IF provider.kind = "list"
                              THEN Len(original_news(provider, days)) ELSE 0,
                              max_items))
    ELSE TweetDraws(SourceRows(news_ret))

\* one run of the body
Body(draws) ==
    IF called = "get_stock_news"
    THEN get_stock_news_rows(provider, FeedTicker, days, max_items, draws)
    ELSE get_stock_tweets_rows(news_ret, FeedTicker, max_items, draws)

\* the decorator reads the entry of the key
Lookup(i) ==
    /\ requests[i].pc = "start"
    /\ called = "get_stock_tweets" => news_ret # NotInvoked
    /\ requests' = [requests EXCEPT ![i] =
                        IF Hit(feed_cache)
                        THEN [pc |-> "done", ret |-> feed_cache.value]
                        ELSE [pc |-> "miss", ret |-> NotInvoked]]
    /\ UNCHANGED <<called, compute_value_lock, feed_cache>>

\* after a miss: the body runs and its value is stored and returned; under
\* the lock the entry is read again first
Compute(i) ==
    /\ requests[i].pc = "miss"
    /\ IF compute_value_lock /\ Hit(feed_cache)
       THEN /\ requests' = [requests EXCEPT ![i] =
                                [pc |-> "done", ret |-> feed_cache.value]]
            /\ UNCHANGED feed_cache
       ELSE \E draws \in BodyDraws :
                /\ requests' = [requests EXCEPT ![i] =
                                    [pc |-> "done", ret |-> Body(draws)]]
                /\ feed_cache' = Entry(Body(draws))
    /\ UNCHANGED <<called, compute_value_lock>>

NextRace ==
    \/ StoreNews
          /\ UNCHANGED <<scorerVars, summaryVars, normalizerVars, aggregateVars, raceVars, dashboardVars, postVars>>
    \/ \E i \in Requests : Lookup(i)
          /\ UNCHANGED <<scorerVars, summaryVars, feedVars, normalizerVars, aggregateVars, dashboardVars, postVars>>
    \/ \E i \in Requests : Compute(i)
          /\ UNCHANGED <<scorerVars, summaryVars, feedVars, normalizerVars, aggregateVars, dashboardVars, postVars>>

SpecRace == InitRace /\ [][NextRace]_vars

----------------------------------------------------------------------------
(* Properties of concurrent requests (under SpecRace).                     *)

BothDone == \A i \in Requests : requests[i].pc = "done"

\* C22: when two requests of the same uncached key run get_stock_news or
\* get_stock_tweets concurrently, both return the same value, which is also
\* the value left in the cache.
ConcurrentRequestsAgree ==
    BothDone =>
        /\ requests[1].ret = requests[2].ret
        /\ feed_cache.value = requests[1].ret

----------------------------------------------------------------------------
(* Specification SpecNormalize: one call of preprocess_text on every       *)
(* argument within the bounds: None, a float, and every string made of at  *)
(* most MaxRawTokens of the pieces below.                                  *)

MaxRawTokens == 3

\* pieces of raw text: single characters of every class the patterns of
\* lines 45-58 distinguish, the two URL prefixes, and a letter of a prefix
RawTokens ==
    {<<"a">>, <<"A">>, <<"1">>, <<"#">>, <<"@">>, <<"_">>, <<" ">>, <<".">>,
     <<"h", "t", "t", "p">>, <<"w", "w", "w">>, <<"w">>}

RECURSIVE TokenStrings(_)
\* the concatenations of at most n pieces
TokenStrings(n) ==
    IF n = 0 THEN {<<>>}
    ELSE LET shorter == TokenStrings(n - 1)
         IN shorter \cup {s \o t : s \in shorter, t \in RawTokens}

RawInputs == {Str(s) : s \in TokenStrings(MaxRawTokens)} \cup {PyNone, PyNaN}

InitNormalize ==
    /\ raw \in RawInputs
    /\ cleaned = NotInvoked
    /\ ScorerIdle /\ SummaryIdle /\ FeedIdle /\ AggregateIdle /\ RaceIdle /\ DashboardIdle /\ PostIdle

\* preprocess_text(raw)
Preprocess ==
    /\ cleaned = NotInvoked
    /\ cleaned' = preprocess_text(raw)
    /\ UNCHANGED raw

NextNormalize ==
    Preprocess /\ UNCHANGED <<scorerVars, summaryVars, feedVars, aggregateVars, raceVars, dashboardVars, postVars>>

SpecNormalize == InitNormalize /\ [][NextNormalize]_vars

----------------------------------------------------------------------------
(* Properties of preprocess_text (under SpecNormalize).                    *)

Normalized == cleaned # NotInvoked

\* C16 (as claimed): preprocess_text returns a string for every argument:
\* the empty string for a non-string, and for a string only lowercase
\* letters separated by single spaces (no uppercase letter, digit,
\* punctuation or symbol, no mention or hashtag, no URL-like substring, no
\* run of whitespace, no leading or trailing whitespace).
NormalizedIsLowercaseWords ==
    Normalized =>
        /\ isinstance_str(cleaned)
        /\ ~isinstance_str(raw) => cleaned.chars = <<>>
        /\ isinstance_str(raw) =>
              LET out == cleaned.chars
              IN /\ \A i \in 1..Len(out) : out[i] \in LowerChars \cup SpaceChars
                 /\ \A i \in 1..(Len(out) - 1) :
                       ~(IsSpace(out[i]) /\ IsSpace(out[i + 1]))
                 /\ out # <<>> => (~IsSpace(out[1]) /\ ~IsSpace(out[Len(out)]))
                 /\ \A i \in 1..Len(out) : UrlMatchLen(out, i) = 0

\* C30: the normalizer is idempotent: normalizing a normalized text returns
\* it unchanged; removing digits or punctuation never leaves a URL-like
\* substring that a second pass would remove.
NormalizerIsIdempotent ==
    Normalized => preprocess_text(cleaned) = cleaned

----------------------------------------------------------------------------
(* Specification SpecAggregate: get_sentiment_stats and the aggregation of *)
(* get_sentiment_summary on a scored collection and on the same collection *)
(* in another order.  The first news_len rows are the news, the others the *)
(* social posts; each source is reordered within itself.                   *)

MaxRows == 3

\* the reorderings of a sequence
Reorderings(rows) ==
    {[i \in 1..Len(rows) |-> rows[f[i]]] : f \in Permutations(1..Len(rows))}

NewsPart(rows, k) == SubSeq(rows, 1, k)

SocialPart(rows, k) == SubSeq(rows, k + 1, Len(rows))

InitAggregate ==
    /\ collection \in SeqsUpTo(ScoreSamples, MaxRows)
    /\ news_len \in 0..Len(collection)
    /\ shuffled \in {p \o q : p \in Reorderings(NewsPart(collection, news_len)),
                              q \in Reorderings(SocialPart(collection, news_len))}
    /\ stats = NotInvoked
    /\ ScorerIdle /\ SummaryIdle /\ FeedIdle /\ NormalizerIdle /\ RaceIdle /\ DashboardIdle /\ PostIdle

\* lines 346-408 of get_sentiment_summary on two scored sources
summarize(rows, k) ==
    build_summary(ScoredFrame(SentimentColumn(NewsPart(rows, k))), NoError,
                  ScoredFrame(SentimentColumn(SocialPart(rows, k))), NoError)

\* both aggregators run on both orders; df_first is the caller's frame
\* after get_sentiment_stats returned
Aggregate ==
    /\ stats = NotInvoked
    /\ stats' = [stats_first |-> get_sentiment_stats(TextFrame(collection)).ret,
                 df_first |-> get_sentiment_stats(TextFrame(collection)).df,
                 stats_second |-> get_sentiment_stats(TextFrame(shuffled)).ret,
                 summary_first |-> summarize(collection, news_len),
                 summary_second |-> summarize(shuffled, news_len)]
    /\ UNCHANGED <<collection, shuffled, news_len>>

NextAggregate ==
    Aggregate /\ UNCHANGED <<scorerVars, summaryVars, feedVars, normalizerVars, raceVars, dashboardVars, postVars>>

SpecAggregate == InitAggregate /\ [][NextAggregate]_vars

----------------------------------------------------------------------------
(* Properties of the aggregators (under SpecAggregate).                    *)

Aggregated == stats # NotInvoked

\* C19: summarising a collection and summarising any reordering of it give
\* identical counts, identical percentages and an identical primary label,
\* in get_sentiment_stats and in get_sentiment_summary.
AggregationIsOrderIndependent ==
    Aggregated =>
        /\ \A f \in {"positive_count", "negative_count", "neutral_count",
                     "total_count", "positive_pct", "negative_pct",
                     "neutral_pct", "primary_sentiment"} :
              stats.stats_first[f] = stats.stats_second[f]
        /\ \A f \in {"news_count", "tweets_count", "positive_pct",
                     "negative_pct", "neutral_pct", "news_sentiment",
                     "social_sentiment", "overall_sentiment"} :
              stats.summary_first[f] = stats.summary_second[f]

\* C19 witness: three rows, two of them positive, were summarised in two
\* orders that start with rows of different labels; positive is primary.
WitnessShuffledCollection ==
    /\ Aggregated
    /\ Len(collection) = 3
    /\ collection[1].sentiment # shuffled[1].sentiment
    /\ stats.stats_first.positive_count = 2
    /\ stats.stats_first.primary_sentiment = "positive"
    /\ stats.summary_first.overall_sentiment = "positive"

\* C23: aggregating a collection never mutates it: after get_sentiment_stats
\* returned, the caller's collection has the columns and values it had
\* before the call.
AggregationLeavesCollectionIntact ==
    Aggregated => stats.df_first = TextFrame(collection)

----------------------------------------------------------------------------
(* Specification SpecDashboard: a browser session of the sentiment         *)
(* dashboard.  Every action is one run of render_sentiment_dashboard with  *)
(* the widget values after the interaction that triggered it.              *)

InitDashboard ==
    /\ DashboardIdle
    /\ RaceIdle
    /\ ScorerIdle /\ SummaryIdle /\ FeedIdle /\ NormalizerIdle /\ AggregateIdle /\ PostIdle

\* one run of the script
Script(market, selected, custom, d, analyze_button) ==
    LET ticker == sentiment_ticker(selected, custom)
        session == session_after(session_state, ticker, d, analyze_button)
    IN /\ sentiment_market' = market
       /\ ticker_select' = selected
       /\ custom_sentiment_ticker' = custom
       /\ days_back' = d
       /\ session_state' = session
       /\ rendered' = page(session, ticker, d)

\* the first run, when the page is opened
OpenPage ==
    /\ rendered = NotInvoked
    /\ Script(sentiment_market, ticker_select, custom_sentiment_ticker,
              days_back, FALSE)

\* another market is chosen; the stock selectbox gets new options and
\* falls back to index 0
SelectMarket ==
    /\ rendered # NotInvoked
    /\ \E market \in Range(market_options) \ {sentiment_market} :
          Script(market, default_tickers(market)[1], custom_sentiment_ticker,
                 days_back, FALSE)

SelectStock ==
    /\ rendered # NotInvoked
    /\ \E selected \in Range(default_tickers(sentiment_market)) \ {ticker_select} :
          Script(sentiment_market, selected, custom_sentiment_ticker,
                 days_back, FALSE)

EnterCustomTicker ==
    /\ rendered # NotInvoked
    /\ \E custom \in CustomTickers \ {custom_sentiment_ticker} :
          Script(sentiment_market, ticker_select, custom, days_back, FALSE)

SlideDays ==
    /\ rendered # NotInvoked
    /\ \E d \in Range(days_options) \ {days_back} :
          Script(sentiment_market, ticker_select, custom_sentiment_ticker,
                 d, FALSE)

\* the button "Analyze Sentiment"
PressAnalyze ==
    /\ rendered # NotInvoked
    /\ Script(sentiment_market, ticker_select, custom_sentiment_ticker,
              days_back, TRUE)

NextDashboard ==
    \/ OpenPage
          /\ UNCHANGED <<scorerVars, summaryVars, feedVars, normalizerVars, aggregateVars, raceVars, postVars>>
    \/ SelectMarket
          /\ UNCHANGED <<scorerVars, summaryVars, feedVars, normalizerVars, aggregateVars, raceVars, postVars>>
    \/ SelectStock
          /\ UNCHANGED <<scorerVars, summaryVars, feedVars, normalizerVars, aggregateVars, raceVars, postVars>>
    \/ EnterCustomTicker
          /\ UNCHANGED <<scorerVars, summaryVars, feedVars, normalizerVars, aggregateVars, raceVars, postVars>>
    \/ SlideDays
          /\ UNCHANGED <<scorerVars, summaryVars, feedVars, normalizerVars, aggregateVars, raceVars, postVars>>
    \/ PressAnalyze
          /\ UNCHANGED <<scorerVars, summaryVars, feedVars, normalizerVars, aggregateVars, raceVars, postVars>>

SpecDashboard == InitDashboard /\ [][NextDashboard]_vars

----------------------------------------------------------------------------
(* Properties of the dashboard (under SpecDashboard).                      *)

\* C26: at every render, the summary, the news list and the social list
\* shown were computed for the ticker named in the titles, and the stored
\* session results belong to the ticker currently selected.
ShownResultsBelongToSelectedTicker ==
    rendered # NotInvoked =>
        /\ rendered.summary.ticker = rendered.distribution_title
        /\ rendered.news_df.ticker = rendered.news_title
        /\ rendered.tweets_df.ticker = rendered.social_title
        /\ session_state.sentiment_summary.ticker
              = sentiment_ticker(ticker_select, custom_sentiment_ticker)

----------------------------------------------------------------------------
(* Specification SpecPost: the base post get_stock_tweets generates from   *)
(* one news row (lines 253-256) and the text the scorer works on, for      *)
(* every title within the bounds and tickers of the dashboard's kinds.     *)

\* tickers as the dashboard offers or accepts them (lines 46-60, 71-79)
TickerSymbols ==
    {<<"A", "A", "P", "L">>,
     <<"T", "C", "S", ".", "N", "S">>,
     <<"B", "R", "K", "-", "B">>,
     <<"^", "G", "S", "P", "C">>}

\* ticker.replace('.', '')
replace_dots(chars) == SelectSeq(chars, LAMBDA c : c # ".")

\* line 254: f"{row['title']} #{ticker.replace('.', '')}"
tweet_text(title_chars, ticker_chars) ==
    title_chars \o <<" ", "#">> \o replace_dots(ticker_chars)

InitPost ==
    /\ row_title \in {Str(t) : t \in TokenStrings(MaxRawTokens)}
    /\ symbol \in TickerSymbols
    /\ base_post = NotInvoked
    /\ ScorerIdle /\ SummaryIdle /\ FeedIdle /\ NormalizerIdle /\ AggregateIdle
    /\ RaceIdle /\ DashboardIdle

\* lines 254-256 for the row, next to line 214 for its headline: the text
\* posted and the two texts after line 83 of the scorer
GenerateBasePost ==
    /\ base_post = NotInvoked
    /\ base_post' =
          [text |-> Str(tweet_text(row_title.chars, symbol)),
           scored |-> preprocess_text(Str(tweet_text(row_title.chars, symbol))),
           headline_scored |-> preprocess_text(row_title)]
    /\ UNCHANGED <<row_title, symbol>>

NextPost ==
    GenerateBasePost
        /\ UNCHANGED <<scorerVars, summaryVars, feedVars, normalizerVars, aggregateVars, raceVars, dashboardVars>>

SpecPost == InitPost /\ [][NextPost]_vars

----------------------------------------------------------------------------
(* Properties of the generated posts (under SpecPost).                     *)

\* C28: for every ticker symbol and headline the hashtag of the base post
\* contributes no token to the scored text: the normalized base post equals
\* the normalized headline (so both get the same label and compound).
HashtagContributesNoToken ==
    base_post # NotInvoked => base_post.scored = base_post.headline_scored

====
